---- MODULE Spec2Model ----
(***************************************************************************)
(* State-machine model of the file-index server (server/ and publib/).     *)
(*                                                                         *)
(*   SpecScan  the startup reconciliation pass (init_files) on a frozen    *)
(*             directory tree                                               *)
(*   Spec      the running program: scan, daemon, event channel, watcher   *)
(*             callback, holders of a FileEventHelper, shutdown            *)
(*   SpecHttp  the HTTP surface: auth layer, /query and /file handlers     *)
(*                                                                         *)
(* Paths are the strings the directory walker and the notification         *)
(* library hand to the program, modelled as tuples of one-character        *)
(* strings so that the LIKE pattern of the prefix queries can be matched.  *)
(* Option<T> is a sequence of length at most one.                          *)
(***************************************************************************)
EXTENDS Integers, Sequences, FiniteSets, TLC

VARIABLES
    fs,         \* the live tree: path -> [kind, mtime, size, data]
    store,      \* the "files" table: a set of rows, "path" the primary key
    mainPc,     \* position of async_main
    walk,       \* entries the directory walker has not yielded yet
    walkErr,    \* entries at which the walker yields Some(Err(_))
    passes,     \* reconciliation passes started so far
    daemon,     \* the daemon task: "none", "running", "stopped", "failed", "panicked"
    queue,      \* the mpsc channel of FileEvent
    pool,       \* the access pool: a set of [token, paths]
    cfgFile,    \* content of the configuration file: Some(pool) when it parses
    wPending,   \* events the watcher callback still has to send
    replies,    \* oneshot reply channels, by request number
    lastMut,    \* history: the last Created/Updated/Removed event the daemon
                \* handled, with the live entries of its paths at that time
    envSteps,   \* inputs so far: tree changes, notifications, requests (bounded)
    http,       \* the last HTTP exchange: request and response
    lastPass,   \* history: tree and store at the end of the last pass that
                \* returned Ok, as long as nothing else wrote to the store
    probe,      \* a library call under examination: arguments and result
    sigints,    \* SIGINTs delivered to the process so far
    threads     \* the web server task, server_handler_waiter, the watcher
                \* thread and its exit flag

vars == <<fs, store, mainPc, walk, walkErr, passes, daemon, queue, pool,
          cfgFile, wPending, replies, lastMut, envSteps, http, lastPass, probe, sigints, threads>>

scanVars == <<fs, store, mainPc, walk, walkErr, passes>>
busVars == <<daemon, queue, pool, cfgFile, wPending, replies, lastMut, envSteps>>

(***************************************************************************)
(* Bounds of the model.                                                    *)
(***************************************************************************)
MaxPasses == 2
MaxEnvSteps == 3
MaxRequests == 2
MaxSigInts == 2

None == <<>>
Some(x) == <<x>>

a_txt == <<"a">>
b_dir == <<"b">>
b_c_txt == <<"b", "/", "c">>
Paths == {a_txt, b_dir, b_c_txt}
\* The configuration file, outside the working directory.
cfg_path == <<"k">>
AllPaths == Paths \cup {cfg_path}

\* Path::starts_with on whole components: p lies strictly below directory d.
IsUnder(p, d) ==
    /\ Len(p) > Len(d) + 1
    /\ SubSeq(p, 1, Len(d)) = d
    /\ p[Len(d) + 1] = "/"

(***************************************************************************)
(* The live tree.                                                          *)
(***************************************************************************)
NoEnt == [kind |-> "none", mtime |-> 0, size |-> 0, data |-> 0]
FileEnt(m, s, d) == [kind |-> "file", mtime |-> m, size |-> s, data |-> d]
DirEnt(m, s) == [kind |-> "dir", mtime |-> m, size |-> s, data |-> 0]

\* Path::is_dir and Path::metadata on the live tree.
is_dir_live(f, p) == p \in DOMAIN f /\ f[p].kind = "dir"
exists_live(f, p) == p \in DOMAIN f /\ f[p].kind # "none"

\* Every entry of a tree has its parent directory.
WellFormed(f) ==
    \A p \in DOMAIN f : \A d \in DOMAIN f :
        (IsUnder(p, d) /\ f[p].kind # "none") => f[d].kind = "dir"

\* The entries below the root ".".
LiveSet(f) == {p \in Paths : f[p].kind # "none"}

(***************************************************************************)
(* publib: hash                                                            *)
(***************************************************************************)
\* The digest of a content. Contents are numbered; the digest stands for
\* Xxh3 over the bytes read, one value per content.
Xxh3(data) == data * 31 + 7

\* get_hash: None for a directory, the digest of a file, Err when the file
\* cannot be opened.
get_hash(f, p) ==
    IF is_dir_live(f, p) THEN [ok |-> TRUE, val |-> None]
    ELSE IF exists_live(f, p) THEN [ok |-> TRUE, val |-> Some(Xxh3(f[p].data))]
    ELSE [ok |-> FALSE, val |-> None]

(***************************************************************************)
(* publib: FileEntry                                                       *)
(***************************************************************************)
FileEntry_new(path, hash, mtime, size, isdir) ==
    [path |-> path, hash |-> hash, mtime |-> mtime, size |-> size, is_dir |-> isdir]

\* hash.unwrap_or_default().to_string() for Option<u64>: "0" when None.
\* (try_from_path::<_, u64>, override_hash::<u64>)
HashText_u64(h) == IF h = None THEN ToString(0) ELSE ToString(h[1])

\* hash.unwrap_or_default() for Option<String>: "" when None.
HashText_String(h) == IF h = None THEN "" ELSE h[1]

\* FileEntry::from_metadata: the raw mtime and size of the entry, also for a
\* directory.
from_metadata(f, p, hashText) ==
    FileEntry_new(p, hashText, f[p].mtime, f[p].size, f[p].kind = "dir")

FileEntry_mtime(e) == IF e.is_dir THEN 0 ELSE e.mtime
FileEntry_size(e) == IF e.is_dir THEN 0 ELSE e.size

\* impl PartialEq for FileEntry
FileEntry_eq(self, other) ==
    IF self.is_dir THEN self.is_dir = other.is_dir
    ELSE self.mtime = other.mtime /\ self.size = other.size

\* FromRow: a NULL hash reads as "".
from_row(r) ==
    FileEntry_new(r.path, IF r.hash = None THEN "" ELSE r.hash[1],
                  r.mtime, r.size, r.is_dir # 0)

\* From<FileEntry> for OptionFile, OptionFile::new_empty
FileMeta_new(e) == [hash |-> e.hash, mtime |-> e.mtime, size |-> e.size, is_dir |-> e.is_dir]
OptionFile_from_option_entry(path, q) ==
    IF q = None THEN [path |-> path, meta |-> None]
    ELSE [path |-> q[1].path, meta |-> Some(FileMeta_new(q[1]))]

(***************************************************************************)
(* server: database (the "files" table)                                    *)
(***************************************************************************)
Ok(s) == [ok |-> TRUE, store |-> s]
Err(s) == [ok |-> FALSE, store |-> s]

Row(path, hash, mtime, size, isdir, marked) ==
    [path |-> path, hash |-> hash, mtime |-> mtime, size |-> size,
     is_dir |-> isdir, marked |-> marked]

HasRow(s, path) == \E r \in s : r.path = path
RowOf(s, path) == CHOOSE r \in s : r.path = path
StorePaths(s) == {r.path : r \in s}

\* SELECT * FROM "files" WHERE "path" = ?
query(s, path) == IF HasRow(s, path) THEN Some(from_row(RowOf(s, path))) ELSE None

\* INSERT for a directory names only "path" and "is_dir": hash is NULL and
\* mtime, size and marked take the column default 0.  INSERT for a file binds
\* is_dir 0 and marked 1.  "path" is the primary key: a second row for the same
\* path is a constraint error and leaves the table as it was.
\* insert, had it bound hash, mtime and size for a directory as it does for a file.
insert_binds_all(s, entry) ==
    IF HasRow(s, entry.path) THEN Err(s)
    ELSE Ok(s \cup {Row(entry.path, Some(entry.hash), FileEntry_mtime(entry),
                         FileEntry_size(entry), IF entry.is_dir THEN 1 ELSE 0, 1)})

insert(s, entry) ==
    IF HasRow(s, entry.path) THEN Err(s)
    ELSE IF entry.is_dir
         THEN Ok(s \cup {Row(entry.path, None, 0, 0, 1, 0)})
         ELSE Ok(s \cup {Row(entry.path, Some(entry.hash), FileEntry_mtime(entry),
                              FileEntry_size(entry), 0, 1)})

\* The text of this statement is
\*   UPDATE "files" SET "hash" = ?, "mtime" = ?, "size" = ?, "marked" = 1" WHERE "path" = ?
\* with a stray double quote after 1: SQLite refuses to prepare it (syntax
\* error), so execute returns Err and no row changes.
update(s, entry) == Err(s)

\* mark_path_str, had it changed no row.
mark_path_str_noop(s, path) == Ok(s)

\* UPDATE "files" SET "marked" = 1 WHERE "path" = ?
mark_path_str(s, path) ==
    Ok({IF r.path = path THEN [r EXCEPT !.marked = 1] ELSE r : r \in s})

mark(s, entry) == mark_path_str(s, entry.path)

\* UPDATE "files" SET "marked" = 0
reset_all_mark(s) == Ok({[r EXCEPT !.marked = 0] : r \in s})

\* DELETE FROM "files" WHERE "marked" = 0
delete_all_unmarked(s) == Ok({r \in s : r.marked # 0})

\* insert_percent: the path, a "/" unless it ends with one, then "%".  The
\* text is written into the statement as a quoted literal (QuotedData doubles
\* every single quote, which SQLite's reading of the literal undoes); "%" and
\* "_" of the path go into the pattern as they are, and the statement has no
\* ESCAPE clause.
insert_percent(path) ==
    (IF Len(path) > 0 /\ path[Len(path)] = "/" THEN path ELSE path \o <<"/">>) \o <<"%">>

\* SQLite folds the ASCII letters of both sides of LIKE to one case.
LikeFold(c) == IF c = "B" THEN "b" ELSE c

\* SQLite's LIKE: "%" matches any run of characters, "_" any one character,
\* any other character itself, letters without regard to case.
RECURSIVE LikeMatch(_, _)
LikeMatch(pat, str) ==
    IF pat = <<>> THEN str = <<>>
    ELSE IF Head(pat) = "%"
         THEN \/ LikeMatch(Tail(pat), str)
              \/ (str # <<>> /\ LikeMatch(pat, Tail(str)))
    ELSE IF str = <<>> THEN FALSE
    ELSE /\ (Head(pat) = "_" \/ LikeFold(Head(pat)) = LikeFold(Head(str)))
         /\ LikeMatch(Tail(pat), Tail(str))

\* SELECT * FROM "files" WHERE "path" LIKE <insert_percent(path)>
query_by_path(s, path) == {from_row(r) : r \in {x \in s : LikeMatch(insert_percent(path), x.path)}}

\* delete: the prefix form when the path is a directory of the live tree at
\* the time of the call, the exact row otherwise.
delete(s, f, path) ==
    IF is_dir_live(f, path)
    THEN Ok({r \in s : ~LikeMatch(insert_percent(path), r.path)})
    ELSE Ok({r \in s : r.path # path})

(***************************************************************************)
(* server: file.rs, the startup reconciliation                             *)
(***************************************************************************)
NoPass == [valid |-> FALSE, fs |-> <<>>, store |-> {}, repeat |-> FALSE]
NoProbe == [call |-> "none"]

\* process_file, had it hashed the entry again and rewritten the row whenever
\* a row exists.
process_file_rehash(s, f, p) ==
    LET h == get_hash(f, p)
        entry == from_metadata(f, p, HashText_u64(h.val))
    IN IF ~h.ok THEN Err(s)
       ELSE Ok({r \in s : r.path # p}
               \cup {Row(p, Some(entry.hash), FileEntry_mtime(entry), FileEntry_size(entry),
                         IF entry.is_dir THEN 1 ELSE 0, 1)})

\* process_file for the entry the walker yielded.
process_file(s, f, p) ==
    LET sql == query(s, p) IN
    IF sql = None
    THEN LET h == get_hash(f, p) IN
         IF ~h.ok THEN Err(s)
         ELSE insert(s, from_metadata(f, p,
                  HashText_String(IF h.val = None THEN None ELSE Some(ToString(h.val[1])))))
    ELSE LET entry == from_metadata(f, p, "") IN
         IF FileEntry_eq(sql[1], entry) THEN mark(s, entry)
         ELSE LET h == get_hash(f, p) IN
              IF ~h.ok THEN Err(s)
              ELSE update(s, [entry EXCEPT !.hash = HashText_u64(h.val)])

\* The walker yields a directory before the entries below it.
WalkReady(w, p) == p \in w /\ \A d \in w : ~IsUnder(p, d)

\* init_files, first statement: reset_all_mark, then the walker is built.
ScanReset ==
    /\ mainPc = "scan_reset"
    /\ store' = reset_all_mark(store).store
    /\ walk' = LiveSet(fs)
    /\ mainPc' = "scan_walk"
    /\ UNCHANGED <<fs, walkErr, passes, lastPass>>

\* One turn of `while let Some(Ok(entry)) = entries.next().await`: the walker
\* yields an entry and process_file runs on it (its error leaves init_files
\* by `?`), or the walker yields an error and the loop ends.
ScanEntry ==
    /\ mainPc = "scan_walk"
    /\ \E p \in walk :
        /\ WalkReady(walk, p)
        /\ IF p \in walkErr
           THEN /\ mainPc' = "scan_sweep"
                /\ UNCHANGED <<store, walk, lastPass>>
           ELSE LET r == process_file(store, fs, p) IN
                /\ store' = r.store
                /\ walk' = walk \ {p}
                /\ mainPc' = IF r.ok THEN "scan_walk" ELSE "failed"
                /\ lastPass' = IF r.ok THEN lastPass ELSE NoPass
    /\ UNCHANGED <<fs, walkErr, passes>>

\* The walker is exhausted (None): the loop ends.
ScanWalkEnd ==
    /\ mainPc = "scan_walk"
    /\ walk = {}
    /\ mainPc' = "scan_sweep"
    /\ UNCHANGED <<fs, store, walk, walkErr, passes, lastPass>>

\* init_files, after the loop: delete_all_unmarked, Ok(()).
ScanSweep ==
    /\ mainPc = "scan_sweep"
    /\ store' = delete_all_unmarked(store).store
    /\ mainPc' = "start"
    /\ lastPass' = [valid |-> walkErr = {}, fs |-> fs, store |-> store',
                     repeat |-> lastPass.valid /\ lastPass.fs = fs /\ walkErr = {}]
    /\ UNCHANGED <<fs, walk, walkErr, passes>>

(***************************************************************************)
(* server: file.rs, FileEvent and FileEventHelper                          *)
(***************************************************************************)
\* mpsc::channel(2048)
ChannelCapacity == 2048

FileEvent(type, paths, id) == [type |-> type, paths |-> paths, id |-> id]
Terminate == FileEvent("Terminate", <<>>, 0)
ConfigureUpdated(path) == FileEvent("ConfigureUpdated", <<path>>, 0)
Request(paths, id) == FileEvent("Request", paths, id)

\* impl From<Event> for FileEvent
FileEvent_from(kind, paths) ==
    CASE kind = "Create" -> FileEvent("New", paths, 0)
      [] kind \in {"ModifyData", "ModifyMeta", "ModifyName"} -> FileEvent("Update", paths, 0)
      [] kind = "Remove" -> FileEvent("Remove", paths, 0)
      [] OTHER -> FileEvent("Unknown", <<>>, 0)

\* The channel accepts a message while the receiver lives and a slot is free.
ReceiverAlive == daemon = "running"
HasSlot(q) == Len(q) < ChannelCapacity

(***************************************************************************)
(* server: file.rs, FileDaemon                                             *)
(***************************************************************************)
\* event_handler, New and Update: the paths in order; the first error leaves
\* the function by `?`.
RECURSIVE handle_new(_, _, _)
handle_new(s, f, paths) ==
    IF paths = <<>> THEN Ok(s)
    ELSE LET p == Head(paths)
             h == get_hash(f, p)
         IN IF ~h.ok THEN Err(s)
            ELSE IF ~exists_live(f, p) THEN Err(s)
            ELSE LET r == insert(s, from_metadata(f, p, HashText_u64(h.val)))
                 IN IF ~r.ok THEN Err(r.store)
                    ELSE handle_new(r.store, f, Tail(paths))

\* event_handler, Remove.
RECURSIVE handle_remove(_, _, _)
handle_remove(s, f, paths) ==
    IF paths = <<>> THEN Ok(s)
    ELSE LET r == delete(s, f, Head(paths))
         IN IF ~r.ok THEN Err(r.store)
            ELSE handle_remove(r.store, f, Tail(paths))

event_handler(s, f, ev) ==
    IF ev.type \in {"New", "Update"} THEN handle_new(s, f, ev.paths)
    ELSE handle_remove(s, f, ev.paths)

\* handler, Request, had it listed only the paths that have a row.
RECURSIVE query_all_present(_, _)
query_all_present(s, paths) ==
    IF paths = <<>> THEN <<>>
    ELSE (IF HasRow(s, Head(paths))
          THEN <<OptionFile_from_option_entry(Head(paths), query(s, Head(paths)))>>
          ELSE <<>>)
         \o query_all_present(s, Tail(paths))

\* handler, Request: one OptionFile per path, in order.
RECURSIVE query_all(_, _)
query_all(s, paths) ==
    IF paths = <<>> THEN <<>>
    ELSE <<OptionFile_from_option_entry(Head(paths), query(s, Head(paths)))>>
         \o query_all(s, Tail(paths))

\* How the handler leaves an event: Terminate is `break` and the function
\* returns Ok(()); Unknown is unreachable!(), a panic of the task; after any
\* other event the loop goes on.
\* handler, had Terminate not left the loop.
handler_exit_no_break(ev) ==
    CASE ev.type = "Unknown" -> "panicked"
      [] OTHER -> "running"

handler_exit(ev) ==
    CASE ev.type = "Terminate" -> "stopped"
      [] ev.type = "Unknown" -> "panicked"
      [] OTHER -> "running"

\* The channel after one turn of the loop: recv took the head; when the
\* handler returns, the receiver is dropped with the events it still holds.
channel_after_drain(q, next) == <<>>

\* recv, had it left the oldest event in the channel and taken out the newest.
channel_after_newest(q, next) == IF next = "running" THEN SubSeq(q, 1, Len(q) - 1) ELSE <<>>

channel_after(q, next) == IF next = "running" THEN Tail(q) ELSE <<>>

\* handler, ConfigureUpdated, had the new entries been added to the old pool.
reload_pool_merge(pl, cfg) ==
    IF cfg # None
    THEN [t \in DOMAIN cfg[1] \cup DOMAIN pl |-> IF t \in DOMAIN cfg[1] THEN cfg[1][t] ELSE pl[t]]
    ELSE pl

\* handler, ConfigureUpdated: Configure::load; on Ok the pool is replaced
\* under the write lock by build_hashmap, on Err it is kept.
reload_pool(pl, cfg) == IF cfg # None THEN cfg[1] ELSE pl

NoMut == [type |-> "none", paths |-> <<>>, ents |-> <<>>]
EntsAt(f, paths) == [i \in 1..Len(paths) |-> IF paths[i] \in DOMAIN f THEN f[paths[i]] ELSE NoEnt]

NoReply == [st |-> "unused", val |-> <<>>]
\* A oneshot sender dropped without a value: the receiver gets RecvError.
CloseWaiting(rep) ==
    [i \in DOMAIN rep |-> IF rep[i].st = "waiting" THEN [st |-> "closed", val |-> <<>>] ELSE rep[i]]

\* sender.send(v), had the value reached a receiver that was dropped.
oneshot_send_late(rep, id, v) == [rep EXCEPT ![id] = [st |-> "done", val |-> v]]

\* sender.send(v).inspect_err(..).ok(): the value reaches a receiver that still
\* waits; with the receiver dropped, send returns Err, which is logged and
\* ignored.
oneshot_send(rep, id, v) ==
    IF rep[id].st = "waiting" THEN [rep EXCEPT ![id] = [st |-> "done", val |-> v]] ELSE rep

\* One turn of `while let Some(event) = receiver.recv().await`.  When the
\* function returns, the receiver is dropped with the events it still holds,
\* and the reply senders inside them are dropped too.
DaemonRecv ==
    /\ daemon = "running"
    /\ queue # <<>>
    /\ LET ev == Head(queue)
           next == handler_exit(ev)
           mutation == ev.type \in {"New", "Update", "Remove"}
           answered == IF ev.type = "Request"
                       THEN oneshot_send(replies, ev.id, query_all(store, ev.paths))
                       ELSE replies
       IN /\ daemon' = next
          /\ queue' = channel_after(queue, next)
          /\ store' = IF mutation THEN event_handler(store, fs, ev).store ELSE store
          /\ lastMut' = IF mutation
                         THEN [type |-> ev.type, paths |-> ev.paths, ents |-> EntsAt(fs, ev.paths)]
                         ELSE lastMut
          /\ replies' = IF next = "running" THEN answered ELSE CloseWaiting(answered)
          /\ pool' = IF ev.type = "ConfigureUpdated" THEN reload_pool(pool, cfgFile) ELSE pool
          /\ lastPass' = IF mutation THEN NoPass ELSE lastPass
    /\ UNCHANGED <<fs, mainPc, walk, walkErr, passes, cfgFile, wPending, envSteps, http, probe, sigints, threads>>

\* FileDaemon::start in async_main, reached once the scan returned Ok (or was
\* skipped); router_start and FileWatcher::start follow at once.
\* async_main, had the daemon been started while init_files still walks.
CanStartDaemon_early == mainPc \in {"scan_walk", "start"}

CanStartDaemon == mainPc = "start"

\* Before router_start and FileWatcher::start, and right after them: the web
\* server serves, server_handler_waiter awaits it, the watcher thread polls
\* its exit flag, which is false.
NoThreads == [web |-> "none", waiter |-> "none", watcher |-> "none", exit_shot |-> FALSE]
Started == [web |-> "serving", waiter |-> "await_web", watcher |-> "polling",
            exit_shot |-> FALSE]

StartDaemon ==
    /\ CanStartDaemon
    /\ daemon = "none"
    /\ daemon' = "running"
    /\ queue' = <<>>
    /\ mainPc' = IF mainPc = "start" THEN "serving" ELSE mainPc
    /\ threads' = Started
    /\ UNCHANGED <<fs, store, walk, walkErr, passes, pool, cfgFile, wPending, replies,
                   lastMut, envSteps, http, lastPass, probe, sigints>>

(***************************************************************************)
(* server: file.rs, FileWatcher                                            *)
(***************************************************************************)
WatcherRunning ==
    /\ mainPc \in {"serving", "sending_terminate", "signalled"}
    /\ threads.watcher \in {"polling", "unwatching"}

\* event_handler, had it compared only the first path of the notification
\* with the configuration path.
config_sends_first(paths) ==
    IF paths # <<>> /\ Head(paths) = cfg_path THEN <<ConfigureUpdated(cfg_path)>> ELSE <<>>

RECURSIVE config_sends(_)
config_sends(paths) ==
    IF paths = <<>> THEN <<>>
    ELSE (IF Head(paths) = cfg_path THEN <<ConfigureUpdated(cfg_path)>> ELSE <<>>)
         \o config_sends(Tail(paths))

\* event_handler, had it sent the event of every notification, whatever its
\* kind.
watcher_events_any_kind(kind, paths) ==
    (IF kind = "ModifyData" THEN config_sends(paths) ELSE <<>>)
    \o <<FileEvent_from(kind, paths)>>

\* FileWatcher::event_handler: the messages one notification makes the
\* callback send, in order.
watcher_events(kind, paths) ==
    (IF kind = "ModifyData" THEN config_sends(paths) ELSE <<>>)
    \o (IF kind \in {"Create", "ModifyData", "ModifyMeta", "ModifyName", "Remove"}
        THEN <<FileEvent_from(kind, paths)>> ELSE <<>>)

\* The notification library calls the callback with an event.
Notify(kinds, batches) ==
    /\ WatcherRunning
    /\ wPending = <<>>
    /\ envSteps < MaxEnvSteps
    /\ \E kind \in kinds, paths \in batches :
          wPending' = watcher_events(kind, paths)
    /\ envSteps' = envSteps + 1
    /\ UNCHANGED <<fs, store, mainPc, walk, walkErr, passes, daemon, queue, pool, cfgFile,
                   replies, lastMut, http, lastPass, probe, sigints, threads>>

\* The same call, with the notification kept in probe for the properties
\* that speak of its kind.
NotifyRecorded(kinds, batches) ==
    /\ WatcherRunning
    /\ wPending = <<>>
    /\ envSteps < MaxEnvSteps
    /\ \E kind \in kinds, paths \in batches :
          /\ wPending' = watcher_events(kind, paths)
          /\ probe' = [call |-> "event_handler", kind |-> kind, paths |-> paths]
    /\ envSteps' = envSteps + 1
    /\ UNCHANGED <<fs, store, mainPc, walk, walkErr, passes, daemon, queue, pool, cfgFile,
                   replies, lastMut, http, lastPass, sigints, threads>>

\* block_on(upstream.send(..)): waits for a slot; fails (a warning) when the
\* receiver is gone.
WatcherSend ==
    /\ wPending # <<>>
    /\ IF ReceiverAlive
       THEN /\ HasSlot(queue)
            /\ queue' = Append(queue, Head(wPending))
       ELSE queue' = queue
    /\ wPending' = Tail(wPending)
    /\ UNCHANGED <<fs, store, mainPc, walk, walkErr, passes, daemon, pool, cfgFile,
                   replies, lastMut, envSteps, http, lastPass, probe, sigints, threads>>

(***************************************************************************)
(* FileEventHelper::send_request and its caller's timeout                  *)
(***************************************************************************)
SendRequest(batches) ==
    /\ daemon # "none"
    /\ envSteps < MaxEnvSteps
    /\ envSteps' = envSteps + 1
    /\ \E id \in DOMAIN replies, paths \in batches :
        /\ replies[id].st = "unused"
        /\ \A j \in DOMAIN replies : j < id => replies[j].st # "unused"
        /\ IF ReceiverAlive
           THEN /\ HasSlot(queue)
                /\ queue' = Append(queue, Request(paths, id))
                /\ replies' = [replies EXCEPT ![id] = [st |-> "waiting", val |-> <<>>]]
           ELSE /\ queue' = queue
                /\ replies' = [replies EXCEPT ![id] = [st |-> "refused", val |-> <<>>]]
    /\ UNCHANGED <<fs, store, mainPc, walk, walkErr, passes, daemon, pool, cfgFile,
                   wPending, lastMut, http, lastPass, probe, sigints, threads>>

\* timeout(Duration::from_secs(..), receiver) elapses: the receiver is dropped.
ReplyTimeout ==
    /\ \E id \in DOMAIN replies :
        /\ replies[id].st = "waiting"
        /\ replies' = [replies EXCEPT ![id] = [st |-> "dropped", val |-> <<>>]]
    /\ UNCHANGED <<fs, store, mainPc, walk, walkErr, passes, daemon, queue, pool, cfgFile,
                   wPending, lastMut, envSteps, http, lastPass, probe, sigints, threads>>

(***************************************************************************)
(* server: main.rs, shutdown                                               *)
(***************************************************************************)
\* wait_to_stop: the first SIGINT runs the kill closure.
SigInt ==
    /\ mainPc = "serving"
    /\ mainPc' = "sending_terminate"
    /\ sigints' = sigints + 1
    /\ UNCHANGED <<fs, store, walk, walkErr, passes, daemon, queue, pool, cfgFile,
                   wPending, replies, lastMut, envSteps, http, lastPass, probe, threads>>

\* file_event_helper.send_terminate().await
SendTerminate ==
    /\ mainPc = "sending_terminate"
    /\ IF ReceiverAlive
       THEN /\ HasSlot(queue)
            /\ queue' = Append(queue, Terminate)
       ELSE queue' = queue
    /\ mainPc' = "signalled"
    /\ UNCHANGED <<fs, store, walk, walkErr, passes, daemon, pool, cfgFile,
                   wPending, replies, lastMut, envSteps, http, lastPass, probe, sigints, threads>>

\* A SIGINT while wait_to_stop is inside `kill().await`: the listener of the
\* first ctrl_c() has completed and the second ctrl_c() is not yet called, so
\* no listener is registered; tokio's handler stays installed for the signal,
\* so the process is not ended either, and the notification reaches nobody.
SigIntUnheard ==
    /\ mainPc = "sending_terminate"
    /\ sigints < MaxSigInts
    /\ sigints' = sigints + 1
    /\ UNCHANGED <<fs, store, mainPc, walk, walkErr, passes, daemon, queue, pool, cfgFile,
                   wPending, replies, lastMut, envSteps, http, lastPass, probe, threads>>

\* wait_to_stop: the second ctrl_c() completes, std::process::exit(137).
SigIntSecond ==
    /\ mainPc = "signalled"
    /\ sigints < MaxSigInts
    /\ sigints' = sigints + 1
    /\ mainPc' = "forced"
    /\ UNCHANGED <<fs, store, walk, walkErr, passes, daemon, queue, pool, cfgFile,
                   wPending, replies, lastMut, envSteps, http, lastPass, probe, threads>>

\* The other branch of select!: server_handler_waiter returns once the web
\* server has shut down, the watcher was asked to stop and the daemon task
\* has ended; async_main returns and the process exits.
ProcessExit ==
    /\ mainPc \in {"sending_terminate", "signalled"}
    /\ daemon \in {"stopped", "failed", "panicked"}
    /\ mainPc' = "exited"
    /\ UNCHANGED <<fs, store, walk, walkErr, passes, daemon, queue, pool, cfgFile,
                   wPending, replies, lastMut, envSteps, http, lastPass, probe, sigints, threads>>

\* ---- the graceful shutdown, thread by thread ----
\* wait_to_stop's closure, had it only sent Terminate and not called
\* server_handler.shutdown().
ShutdownAsked_not_called == FALSE

\* server_handler.shutdown() has been called: the first statement of the
\* closure wait_to_stop runs on SIGINT.
ShutdownAsked == mainPc \in {"sending_terminate", "signalled"}

ProcessRuns == mainPc \in {"serving", "sending_terminate", "signalled"}

\* The serve future of the web server returns after Handle::shutdown().
WebServerEnds ==
    /\ ProcessRuns /\ ShutdownAsked
    /\ threads.web = "serving"
    /\ threads' = [threads EXCEPT !.web = "finished"]
    /\ UNCHANGED <<fs, store, mainPc, walk, walkErr, passes, daemon, queue, pool, cfgFile,
                   wPending, replies, lastMut, envSteps, http, lastPass, probe, sigints>>

\* server_handler_waiter: web_server.await??
WaiterWebDone ==
    /\ ProcessRuns
    /\ threads.waiter = "await_web" /\ threads.web = "finished"
    /\ threads' = [threads EXCEPT !.waiter = "stop_watcher"]
    /\ UNCHANGED <<fs, store, mainPc, walk, walkErr, passes, daemon, queue, pool, cfgFile,
                   wPending, replies, lastMut, envSteps, http, lastPass, probe, sigints>>

\* file_watcher.stop(..): is_finished is false while the thread runs, then
\* _send_terminate stores true in exit_shot.
WaiterStopWatcher ==
    /\ ProcessRuns
    /\ threads.waiter = "stop_watcher"
    /\ threads' = [threads EXCEPT !.waiter = "polling_watcher",
                                  !.exit_shot = IF threads.watcher = "finished" THEN @ ELSE TRUE]
    /\ UNCHANGED <<fs, store, mainPc, walk, walkErr, passes, daemon, queue, pool, cfgFile,
                   wPending, replies, lastMut, envSteps, http, lastPass, probe, sigints>>

\* stop returns: it saw the thread finished, or its five polls are over.
\* Each poll follows a sleep of 100 ms and the watcher's loop sleeps 10 ms a
\* turn, so the loop has seen the flag before the first poll ends; how long
\* unwatch takes is not bounded by anything stop does.
WaiterStopReturns ==
    /\ ProcessRuns
    /\ threads.waiter = "polling_watcher"
    /\ threads.watcher # "polling"
    /\ threads' = [threads EXCEPT !.waiter = "await_daemon"]
    /\ UNCHANGED <<fs, store, mainPc, walk, walkErr, passes, daemon, queue, pool, cfgFile,
                   wPending, replies, lastMut, envSteps, http, lastPass, probe, sigints>>

\* file_daemon.into_inner().await??, then select! ends and async_main
\* returns: Ok when the handler returned Ok(()), Err when the task panicked.
WaiterDaemonDone ==
    /\ ProcessRuns
    /\ threads.waiter = "await_daemon"
    /\ daemon \in {"stopped", "failed", "panicked"}
    /\ threads' = [threads EXCEPT !.waiter = IF daemon = "stopped" THEN "returned_ok"
                                                                    ELSE "returned_err"]
    /\ mainPc' = "exited"
    /\ UNCHANGED <<fs, store, walk, walkErr, passes, daemon, queue, pool, cfgFile,
                   wPending, replies, lastMut, envSteps, http, lastPass, probe, sigints>>

\* The loop of FileWatcher::watcher, had it never seen the flag set.
exit_signal_load_stale(t) == FALSE

\* exit_signal.load(Ordering::Relaxed)
exit_signal_load(t) == t.exit_shot

\* One turn of the polling loop that finds the flag set: break.
WatcherLeavesLoop ==
    /\ ProcessRuns
    /\ threads.watcher = "polling"
    /\ exit_signal_load(threads)
    /\ threads' = [threads EXCEPT !.watcher = "unwatching"]
    /\ UNCHANGED <<fs, store, mainPc, walk, walkErr, passes, daemon, queue, pool, cfgFile,
                   wPending, replies, lastMut, envSteps, http, lastPass, probe, sigints>>

\* watcher.unwatch(path), then the function returns and the thread ends.
\* The request is served by the notification thread, which is the one that
\* runs the callback: while the callback waits inside block_on(send), the
\* request waits.
WatcherUnwatches ==
    /\ ProcessRuns
    /\ threads.watcher = "unwatching"
    /\ wPending = <<>>
    /\ threads' = [threads EXCEPT !.watcher = "finished"]
    /\ UNCHANGED <<fs, store, mainPc, walk, walkErr, passes, daemon, queue, pool, cfgFile,
                   wPending, replies, lastMut, envSteps, http, lastPass, probe, sigints>>

(***************************************************************************)
(* The environment: the tree changes under the running program.            *)
(***************************************************************************)
FileV1 == FileEnt(1, 1, 1)
FileV2 == FileEnt(2, 2, 2)
FileV3 == FileEnt(1, 1, 3)
DirV == DirEnt(1, 1)
CfgEnt == FileEnt(1, 1, 9)

\* rm -r p: p and everything below it.
RemoveTree(f, p) == [q \in DOMAIN f |-> IF q = p \/ IsUnder(q, p) THEN NoEnt ELSE f[q]]

FsChange(targets, versions) ==
    /\ mainPc \in {"serving", "sending_terminate", "signalled"}
    /\ envSteps < MaxEnvSteps
    /\ \E p \in targets :
        \/ /\ fs[p].kind # "none"
           /\ fs' = RemoveTree(fs, p)
        \/ \E e \in versions :
           /\ fs[p].kind \in {"none", "file"}
           /\ e # fs[p]
           /\ fs' = [fs EXCEPT ![p] = e]
           /\ WellFormed(fs')
    /\ envSteps' = envSteps + 1
    /\ UNCHANGED <<store, mainPc, walk, walkErr, passes, daemon, queue, pool, cfgFile,
                   wPending, replies, lastMut, http, lastPass, probe, sigints, threads>>

(***************************************************************************)
(* Specifications                                                          *)
(***************************************************************************)
T1 == <<"1">>
T2 == <<"2">>
\* build_hashmap of three configurations: token -> allowed prefixes.
Pool1 == [t \in {T1} |-> << <<"pub">> >>]
Pool2 == [t \in {T1} |-> << <<"pub2">> >>]
Pool3 == [t \in {T2} |-> << <<"pub">> >>]

\* The tree of the cold-start scenario: a.txt, b/, b/c.txt.
Tree0 == [p \in AllPaths |->
            CASE p = a_txt -> FileV1
              [] p = b_dir -> DirV
              [] p = b_c_txt -> FileV1
              [] OTHER -> CfgEnt]

IdleBus ==
    /\ daemon = "none"
    /\ queue = <<>>
    /\ pool = Pool1
    /\ cfgFile = Some(Pool1)
    /\ wPending = <<>>
    /\ replies = [i \in 1..MaxRequests |-> NoReply]
    /\ lastMut = NoMut
    /\ envSteps = 0

DEFAULT_WAIT_TIME == 3

\* str::parse::<u64> on the --server-timeout text: decimal digits only.
DigitValue(c) ==
    CASE c = "0" -> 0 [] c = "1" -> 1 [] c = "2" -> 2 [] c = "3" -> 3 [] c = "4" -> 4
      [] c = "5" -> 5 [] c = "6" -> 6 [] c = "7" -> 7 [] c = "8" -> 8 [] c = "9" -> 9
      [] OTHER -> -1

RECURSIVE parse_digits(_, _)
parse_digits(acc, text) ==
    IF text = <<>> THEN [ok |-> TRUE, val |-> acc]
    ELSE IF DigitValue(Head(text)) < 0 THEN [ok |-> FALSE, val |-> 0]
    ELSE parse_digits(acc * 10 + DigitValue(Head(text)), Tail(text))

parse_u64(text) == IF text = <<>> THEN [ok |-> FALSE, val |-> 0] ELSE parse_digits(0, text)

\* main: the value WAIT_TIME is set to.
wait_time(arg) ==
    LET parsed == parse_u64(arg)
        set_time == IF parsed.ok THEN parsed.val ELSE DEFAULT_WAIT_TIME
    IN IF set_time > DEFAULT_WAIT_TIME THEN DEFAULT_WAIT_TIME ELSE set_time

\* No exchange yet; WAIT_TIME as main sets it for the default "3".
NoHttp == [phase |-> "idle", WAIT_TIME |-> wait_time(<<"3">>)]

ScanStep ==
    /\ ScanReset \/ ScanEntry \/ ScanWalkEnd \/ ScanSweep
    /\ UNCHANGED <<busVars, http, probe, sigints, threads>>

\* ---- SpecScan: reconciliation passes over frozen trees ----
ScanTrees ==
    {f \in [AllPaths -> {NoEnt, FileV1, FileV2, FileV3, DirV, CfgEnt}] :
        /\ f[cfg_path] = CfgEnt
        /\ f[a_txt] \in {NoEnt, FileV1, FileV2, FileV3, DirV}
        /\ f[b_dir] \in {NoEnt, DirV}
        /\ f[b_c_txt] \in {NoEnt, FileV1, FileV2}
        /\ WellFormed(f)}

WalkErrs == {{}} \cup {{p} : p \in Paths}

InitScan ==
    /\ fs \in ScanTrees
    /\ store = {}
    /\ mainPc = "scan_reset"
    /\ walk = {}
    /\ walkErr \in WalkErrs
    /\ passes = 1
    /\ IdleBus
    /\ http = NoHttp
    /\ lastPass = NoPass
    /\ probe = NoProbe
    /\ sigints = 0
    /\ threads = NoThreads

\* Between two passes the program served and its daemon handled Created(p).
PriorRunCreated ==
    /\ mainPc = "start"
    /\ \E p \in Paths :
        /\ store' = event_handler(store, fs, FileEvent("New", <<p>>, 0)).store
        /\ store' # store
    /\ mainPc' = "exited"
    /\ lastPass' = NoPass
    /\ UNCHANGED <<fs, walk, walkErr, passes, busVars, http, probe, sigints, threads>>

\* The program is started again, on a tree that may have changed.
Rerun ==
    /\ mainPc \in {"start", "exited", "failed"}
    /\ passes < MaxPasses
    /\ passes' = passes + 1
    /\ fs' \in ScanTrees
    /\ walkErr' \in WalkErrs
    /\ walk' = {}
    /\ mainPc' = "scan_reset"
    /\ UNCHANGED <<store, busVars, http, lastPass, probe, sigints, threads>>

NextScan == ScanStep \/ PriorRunCreated \/ Rerun

SpecScan == InitScan /\ [][NextScan]_vars

\* The operator edits the configuration file; None is a text that does not
\* parse.
EditConfig(texts) ==
    /\ WatcherRunning
    /\ envSteps < MaxEnvSteps
    /\ cfgFile' \in texts \ {cfgFile}
    /\ envSteps' = envSteps + 1
    /\ UNCHANGED <<fs, store, mainPc, walk, walkErr, passes, daemon, queue, pool,
                   wPending, replies, lastMut, http, lastPass, probe, sigints, threads>>

\* ---- Spec: the running program ----
NotifyKinds == {"Create", "ModifyData", "Remove", "Access"}
NotifyBatches == {<<a_txt>>, <<b_dir>>, <<cfg_path>>}
RequestBatches == {<<a_txt>>, <<b_c_txt>>}
ChangeTargets == {a_txt, b_dir}
ChangeVersions == {FileV2, DirV}

Init ==
    /\ fs = Tree0
    /\ store = {}
    /\ mainPc \in {"scan_reset", "start"}
    /\ walk = {}
    /\ walkErr = {}
    /\ passes = 1
    /\ IdleBus
    /\ http = NoHttp
    /\ lastPass = NoPass
    /\ probe = NoProbe
    /\ sigints = 0
    /\ threads = NoThreads

Next ==
    \/ ScanStep
    \/ StartDaemon
    \/ DaemonRecv
    \/ Notify(NotifyKinds, NotifyBatches)
    \/ WatcherSend
    \/ SendRequest(RequestBatches)
    \/ ReplyTimeout
    \/ FsChange(ChangeTargets, ChangeVersions)
    \/ EditConfig({Some(Pool1), Some(Pool2), None})
    \/ SigInt
    \/ SendTerminate

Spec == Init /\ [][Next]_vars

(***************************************************************************)
(* publib: check_penetration, on a fixed host file system                  *)
(***************************************************************************)
\* Absolute paths are sequences of components.  The working directory is
\* /srv; /srv/out is a symbolic link to /etc.
cwd == <<"srv">>
HostDirs == {<<>>, <<"etc">>, <<"srv">>, <<"srv", "pub">>, <<"srv", "pub2">>}
HostFiles == {<<"etc", "passwd">>, <<"srv", "pub", "x">>, <<"srv", "pub2", "y">>}
HostLinks == {<<"srv", "out">>}
LinkTarget(p) == <<"etc">>
HostContent(p) == <<"content", p>>

\* std::fs::canonicalize: component by component, ".." leaves the directory
\* reached so far, a link is followed, every component must exist.
RECURSIVE canonicalize_from(_, _)
canonicalize_from(cur, rest) ==
    IF rest = <<>> THEN [ok |-> TRUE, path |-> cur]
    ELSE IF cur \notin HostDirs THEN [ok |-> FALSE, path |-> cur]
    ELSE IF Head(rest) = ".."
         THEN canonicalize_from(IF cur = <<>> THEN cur ELSE SubSeq(cur, 1, Len(cur) - 1),
                                Tail(rest))
    ELSE LET nxt == Append(cur, Head(rest)) IN
         IF nxt \in HostLinks THEN canonicalize_from(LinkTarget(nxt), Tail(rest))
         ELSE IF nxt \in HostDirs \cup HostFiles THEN canonicalize_from(nxt, Tail(rest))
         ELSE [ok |-> FALSE, path |-> nxt]

starts_with(p, prefix) == Len(p) >= Len(prefix) /\ SubSeq(p, 1, Len(prefix)) = prefix

\* PathBuf::push: a relative path is appended; an absolute one (written here
\* with the leading component "/") replaces the base.
path_push(base, path) ==
    IF path # <<>> /\ Head(path) = "/" THEN Tail(path) ELSE base \o path

\* ".." and "." folded away in the text of the path, nothing looked up.
RECURSIVE lexical_clean(_, _)
lexical_clean(cur, rest) ==
    IF rest = <<>> THEN cur
    ELSE IF Head(rest) = ".."
         THEN lexical_clean(IF cur = <<>> THEN cur ELSE SubSeq(cur, 1, Len(cur) - 1), Tail(rest))
    ELSE lexical_clean(Append(cur, Head(rest)), Tail(rest))

\* check_penetration, had it compared the cleaned text of the joined path.
check_penetration_lexical(path) ==
    starts_with(lexical_clean(<<>>, path_push(cwd, path)), cwd)

\* current_dir joined with the path, canonicalized, must stay below current_dir.
check_penetration(path) ==
    LET c == canonicalize_from(<<>>, path_push(cwd, path)) IN
    IF c.ok THEN starts_with(c.path, cwd) ELSE FALSE

(***************************************************************************)
(* server: server.rs                                                       *)
(***************************************************************************)
Chars(w) ==
    CASE w = "bearer " -> <<"b", "e", "a", "r", "e", "r", " ">>
      [] w = "Bearer " -> <<"B", "e", "a", "r", "e", "r", " ">>
      [] w = "basic " -> <<"b", "a", "s", "i", "c", " ">>

\* check_auth: the header must start with "bearer "; what follows is the
\* token, looked up in the pool under the read lock.
\* check_auth, had it accepted every well-formed bearer header.
check_auth_no_lookup(header, pl) ==
    IF header = None THEN None
    ELSE LET bearer == header[1] IN
         IF ~starts_with(bearer, Chars("bearer ")) THEN None
         ELSE LET token == SubSeq(bearer, Len(Chars("bearer ")) + 1, Len(bearer)) IN
              IF token \in DOMAIN pl THEN Some(pl[token]) ELSE Some(<<>>)

check_auth(header, pl) ==
    IF header = None THEN None
    ELSE LET bearer == header[1] IN
         IF ~starts_with(bearer, Chars("bearer ")) THEN None
         ELSE LET token == SubSeq(bearer, Len(Chars("bearer ")) + 1, Len(bearer)) IN
              IF token \in DOMAIN pl THEN Some(pl[token]) ELSE None

\* Request extensions hold at most one value per type.  The layers put the
\* pool and the helper there; authorize adds the allowed prefixes wrapped in
\* Extension.
ExtensionTypes ==
    {"Arc<RwLock<HashMap<String, Vec<String>>>>", "FileEventHelper",
     "Extension<Vec<String>>", "Vec<String>"}

BaseExtensions(pl) ==
    [t \in ExtensionTypes |->
        CASE t = "Arc<RwLock<HashMap<String, Vec<String>>>>" -> Some(pl)
          [] t = "FileEventHelper" -> Some("helper")
          [] OTHER -> None]

extensions_get(exts, type) == exts[type]
extensions_insert(exts, type, val) == [exts EXCEPT ![type] = Some(val)]

\* AuthLayer::authorize: the request with one more extension, or 401.
authorize(header, exts) ==
    LET pl == extensions_get(exts, "Arc<RwLock<HashMap<String, Vec<String>>>>")[1]
        user_id == check_auth(header, pl)
    IN IF user_id # None
       THEN [ok |-> TRUE,
             exts |-> extensions_insert(exts, "Extension<Vec<String>>", user_id[1])]
       ELSE [ok |-> FALSE, exts |-> exts]

Response(status, body) == [status |-> status, body |-> body]

\* get_file, had it served whatever the joined path resolves to.
get_file_serves(path, exts) ==
    LET c == canonicalize_from(<<>>, cwd \o path) IN
    IF c.ok /\ c.path \in HostFiles THEN Response(200, Some(HostContent(c.path)))
    ELSE Response(403, None)

\* get_file
get_file(path, exts) == Response(403, None)

\* query, had it looked the paths up under the type AuthLayer inserted.
query_paths_as_inserted(exts) == extensions_get(exts, "Extension<Vec<String>>")

\* query, up to send_request: the paths extension is looked up as Vec<String>.
query_paths(exts) == extensions_get(exts, "Vec<String>")

Routes == {"/", "/file", "/query", "/other"}

\* One HTTP exchange, request to response; the model follows one exchange,
\* made at any moment.  "/", "/file/*path" and "/query" were added before
\* route_layer and run behind AuthLayer; anything else is the fallback.
HttpRequest(headers, paths, delays) ==
    /\ daemon # "none"
    /\ threads.web = "serving"
    /\ http.phase = "idle"
    /\ \E route \in Routes, header \in headers, path \in paths,
          delay \in delays :
        LET auth == authorize(header, BaseExtensions(pool))
            base == [route |-> route, header |-> header, path |-> path,
                     delay |-> delay,
                     receiver |-> ReceiverAlive,
                     keys |-> DOMAIN pool,
                     allowed |-> extensions_get(auth.exts, "Extension<Vec<String>>")]
            done(handler, resp) ==
                http' = [phase |-> "done", WAIT_TIME |-> http.WAIT_TIME, req |-> base,
                         handler |-> handler, status |-> resp.status, body |-> resp.body]
        IN IF route = "/other"
           THEN done("fallback", Response(403, Some("403 Forbidden"))) /\ UNCHANGED <<queue, replies>>
           ELSE IF ~auth.ok
           THEN done("none", Response(401, None)) /\ UNCHANGED <<queue, replies>>
           ELSE IF route = "/"
           THEN done("root", Response(200, Some("version"))) /\ UNCHANGED <<queue, replies>>
           ELSE IF route = "/file"
           THEN done("get_file", get_file(path, auth.exts)) /\ UNCHANGED <<queue, replies>>
           ELSE IF query_paths(auth.exts) = None
           THEN done("query", Response(500, Some("Paths is None"))) /\ UNCHANGED <<queue, replies>>
           ELSE IF ~ReceiverAlive
           THEN \* send_request is None: the handler falls through to forbidden
                done("query", Response(403, None)) /\ UNCHANGED <<queue, replies>>
           ELSE \* send_request, then timeout(Duration::from_secs(DEFAULT_WAIT_TIME), receiver)
                /\ http' = [phase |-> "waiting", WAIT_TIME |-> http.WAIT_TIME, req |-> base,
                            handler |-> "query", status |-> 0, body |-> None,
                            deadline |-> DEFAULT_WAIT_TIME]
                /\ queue' = Append(queue, Request(query_paths(auth.exts)[1], 1))
                /\ replies' = [replies EXCEPT ![1] = [st |-> "waiting", val |-> <<>>]]
    /\ UNCHANGED <<fs, store, mainPc, walk, walkErr, passes, daemon, pool, cfgFile,
                   wPending, lastMut, envSteps, lastPass, probe, sigints, threads>>

\* ---- SpecHttp: requests against a pool that configuration reloads change ----
HttpHeaders ==
    {None,
     Some(Chars("bearer ") \o T1), Some(Chars("bearer ") \o T2),
     Some(Chars("Bearer ") \o T1), Some(Chars("basic ") \o T1),
     Some(Chars("bearer ") \o <<" ">> \o T1)}
HttpPaths ==
    {<<"pub", "x">>, <<"pub", "..", "pub", "x">>, <<"..", "etc", "passwd">>,
     <<"out", "passwd">>, <<"pub2", "y">>, <<"pub">>, <<"pub", "nofile">>}

ServerTimeoutArgs == {<<"1">>, <<"5">>, <<"x">>}
ReplyDelays == {Some(0), Some(2), None}

InitHttp ==
    /\ fs = Tree0
    /\ store = {}
    /\ mainPc = "serving"
    /\ walk = {}
    /\ walkErr = {}
    /\ passes = 0
    /\ daemon = "running"
    /\ queue = <<>>
    /\ pool = Pool1
    /\ cfgFile = Some(Pool1)
    /\ wPending = <<>>
    /\ replies = [i \in 1..MaxRequests |-> NoReply]
    /\ lastMut = NoMut
    /\ envSteps = 0
    /\ http \in {[phase |-> "idle", WAIT_TIME |-> wait_time(a)] : a \in ServerTimeoutArgs}
    /\ lastPass = NoPass
    /\ probe = NoProbe
    /\ sigints = 0
    /\ threads = Started

NextHttp ==
    \/ HttpRequest(HttpHeaders, HttpPaths, ReplyDelays)
    \/ EditConfig({Some(Pool1), Some(Pool3), None})
    \/ Notify({"ModifyData"}, {<<cfg_path>>})
    \/ WatcherSend
    \/ DaemonRecv

SpecHttp == InitHttp /\ [][NextHttp]_vars

\* ---- SpecHttpShutdown: requests before, during and after the shutdown,
\* until the server has stopped ----
NextHttpShutdown ==
    \/ HttpRequest(HttpHeaders, {<<"pub", "x">>}, {Some(0)})
    \/ DaemonRecv
    \/ SigInt
    \/ SendTerminate
    \/ WebServerEnds

SpecHttpShutdown == InitHttp /\ [][NextHttpShutdown]_vars

(***************************************************************************)
(* publib: file.rs, get_file_hash, byte by byte                            *)
(***************************************************************************)
BUFFER_SIZE == 1024

Bytes(n, b) == [i \in 1..n |-> b]

\* The hasher, taken to be free of collisions: its state is the sequence of
\* bytes it was given, its digest identifies that sequence.
Xxh3_new == <<>>
Xxh3_update(state, input) == state \o input
Xxh3_digest(state) == state

\* file.read(&mut buffer): fills the front of the buffer with as many bytes
\* as are left, at most BUFFER_SIZE; the rest of the buffer keeps what it held.
read(buffer, rest) ==
    LET read_size == IF Len(rest) < BUFFER_SIZE THEN Len(rest) ELSE BUFFER_SIZE IN
    [read_size |-> read_size,
     buffer |-> SubSeq(rest, 1, read_size) \o SubSeq(buffer, read_size + 1, BUFFER_SIZE),
     rest |-> SubSeq(rest, read_size + 1, Len(rest))]

\* The loop of get_file_hash: xxhash.update(&buffer) after every read, until
\* a read returns less than BUFFER_SIZE.
RECURSIVE hash_loop(_, _, _)
hash_loop(xxhash, buffer, rest) ==
    LET r == read(buffer, rest)
        fed == Xxh3_update(xxhash, r.buffer)
    IN IF r.read_size < BUFFER_SIZE THEN fed
       ELSE hash_loop(fed, r.buffer, r.rest)

\* get_file_hash of a regular file with this content.
get_file_hash(content) ==
    Xxh3_digest(hash_loop(Xxh3_new, Bytes(BUFFER_SIZE, 0), content))

\* ---- SpecLib: calls of the library functions on their own ----
FileLengths == {0, 1, 2, BUFFER_SIZE - 1, BUFFER_SIZE, BUFFER_SIZE + 1}
LibContents ==
    {Bytes(n, 7) : n \in FileLengths}
    \cup {Bytes(n, 7) \o <<0>> : n \in FileLengths}
    \cup {Bytes(n, 0) : n \in FileLengths}

\* get_file_hash on two files.
HashFiles(contents) ==
    /\ probe.call = "none"
    /\ \E f \in contents, g \in contents :
          probe' = [call |-> "get_file_hash", len1 |-> Len(f), len2 |-> Len(g),
                    last1 |-> IF f = <<>> THEN -1 ELSE f[Len(f)],
                    last2 |-> IF g = <<>> THEN -1 ELSE g[Len(g)],
                    equal_content |-> (f = g),
                    equal_digest |-> (get_file_hash(f) = get_file_hash(g))]
    /\ UNCHANGED <<scanVars, busVars, http, lastPass, sigints, threads>>

\* The prefix statements on a table: query_by_path(d), and delete(d) with d a
\* directory of the live tree.
PrefixDirs == {<<"b">>, <<"_">>, <<"%">>, <<"B">>}
PrefixRowPaths ==
    {<<"b">>, <<"b", "/", "c">>, <<"_", "/", "c">>, <<"%", "/", "c">>, <<"b", "c", "/", "c">>}

PrefixOps(dirs, rowPaths) ==
    /\ probe.call = "none"
    /\ \E d \in dirs, ps \in SUBSET rowPaths :
          LET s == {Row(q, Some("7"), 1, 1, 0, 1) : q \in ps}
              f == [q \in {d} |-> DirEnt(0, 0)]
          IN probe' = [call |-> "prefix", dir |-> d, rows |-> ps,
                       returned |-> {e.path : e \in query_by_path(s, d)},
                       kept |-> StorePaths(delete(s, f, d).store)]
    /\ UNCHANGED <<scanVars, busVars, http, lastPass, sigints, threads>>

\* ---- ExitExt::stop (AsyncExitExt::stop has the same body) on a worker ----
\* for _ in 0..5
StopPolls == 5
\* Duration::from_millis(100)
StopSleepMs == 100

\* The implementors of ExitExt.  _send_terminate of FileWatcher stores the
\* exit flag and that of WebServer calls Handle::shutdown; both return
\* Some(()).  AsyncExitExt has no implementor.
StopWorkers == {"FileWatcher", "WebServer"}
SendTerminateResults == {TRUE}

\* stop(not_finished) is called on a worker that has or has not finished.
StopCall(workers, sendResults) ==
    /\ probe.call = "none"
    /\ \E t \in workers, fin \in BOOLEAN, sendOk \in sendResults :
          probe' = [call |-> "stop", worker |-> t, pc |-> "first_check",
                    finished |-> fin, sendOk |-> sendOk,
                    first |-> "pending", asked |-> FALSE, i |-> 0, polls |-> 0,
                    elapsed |-> 0, seen |-> FALSE, not_finished |-> 0,
                    result |-> "pending"]
    /\ UNCHANGED <<scanVars, busVars, http, lastPass, sigints, threads>>

\* The worker ends, at any moment of the call.
WorkerFinishes ==
    /\ probe.call = "stop"
    /\ probe.pc # "returned"
    /\ ~probe.finished
    /\ probe' = [probe EXCEPT !.finished = TRUE]
    /\ UNCHANGED <<scanVars, busVars, http, lastPass, sigints, threads>>

\* The end of stop, had it returned None without calling not_finished.
stop_last_check_silent(p) ==
    IF p.finished
    THEN [p EXCEPT !.seen = TRUE, !.result = "Some", !.pc = "returned"]
    ELSE [p EXCEPT !.seen = FALSE, !.result = "None", !.pc = "returned"]

\* if !self.is_finished() { not_finished(); return None; } .. Some(())
stop_last_check(p) ==
    IF p.finished
    THEN [p EXCEPT !.seen = TRUE, !.result = "Some", !.pc = "returned"]
    ELSE [p EXCEPT !.seen = FALSE, !.not_finished = @ + 1,
                   !.result = "None", !.pc = "returned"]

\* One step of stop.
StopStep ==
    /\ probe.call = "stop"
    /\ probe.pc # "returned"
    /\ probe' =
         CASE probe.pc = "first_check" ->
                 \* if !self.is_finished() { .. } Some(())
                 IF probe.finished
                 THEN [probe EXCEPT !.first = "finished", !.seen = TRUE,
                                    !.result = "Some", !.pc = "returned"]
                 ELSE [probe EXCEPT !.first = "unfinished", !.seen = FALSE, !.pc = "send"]
           [] probe.pc = "send" ->
                 \* self._send_terminate()?
                 IF probe.sendOk
                 THEN [probe EXCEPT !.asked = TRUE, !.pc = "sleep"]
                 ELSE [probe EXCEPT !.asked = TRUE, !.result = "None", !.pc = "returned"]
           [] probe.pc = "sleep" ->
                 \* for _ in 0..5 { sleep(100 ms);
                 IF probe.i < StopPolls
                 THEN [probe EXCEPT !.elapsed = @ + StopSleepMs, !.pc = "poll"]
                 ELSE [probe EXCEPT !.pc = "last_check"]
           [] probe.pc = "poll" ->
                 \* if self.is_finished() { break; } }
                 IF probe.finished
                 THEN [probe EXCEPT !.polls = @ + 1, !.seen = TRUE, !.pc = "last_check"]
                 ELSE [probe EXCEPT !.polls = @ + 1, !.seen = FALSE, !.i = @ + 1, !.pc = "sleep"]
           [] probe.pc = "last_check" -> stop_last_check(probe)
    /\ UNCHANGED <<scanVars, busVars, http, lastPass, sigints, threads>>

\* FileEntry::eq on two records, in both directions.
EqEntries ==
    {FileEntry_new(a_txt, h, m, sz, d) :
        h \in {"", "38"}, m \in {0, 1}, sz \in {0, 1}, d \in BOOLEAN}

EqPair(entries) ==
    /\ probe.call = "none"
    /\ \E a \in entries, b \in entries :
          probe' = [call |-> "eq", a |-> a, b |-> b,
                    ab |-> FileEntry_eq(a, b), ba |-> FileEntry_eq(b, a)]
    /\ UNCHANGED <<scanVars, busVars, http, lastPass, sigints, threads>>

PathComponents == {"..", "srv", "pub", "x", "out", "passwd", "etc"}
MaxPathLen == 4
LibPaths ==
    UNION {[1..n -> PathComponents] : n \in 0..MaxPathLen}
    \cup {<<"/", "etc", "passwd">>, <<"/", "srv", "pub", "x">>}

CheckPath(paths) ==
    /\ probe.call = "none"
    /\ \E path \in paths :
          probe' = [call |-> "check_penetration", path |-> path,
                    result |-> check_penetration(path)]
    /\ UNCHANGED <<scanVars, busVars, http, lastPass, sigints, threads>>

InitLib ==
    /\ fs = Tree0
    /\ store = {}
    /\ mainPc = "start"
    /\ walk = {}
    /\ walkErr = {}
    /\ passes = 0
    /\ IdleBus
    /\ http = NoHttp
    /\ lastPass = NoPass
    /\ probe = NoProbe
    /\ sigints = 0
    /\ threads = NoThreads

NextLib ==
    \/ CheckPath(LibPaths)
    \/ HashFiles(LibContents)
    \/ PrefixOps(PrefixDirs, PrefixRowPaths)
    \/ EqPair(EqEntries)
    \/ StopCall(StopWorkers, SendTerminateResults)
    \/ WorkerFinishes
    \/ StopStep

SpecLib == InitLib /\ [][NextLib]_vars

\* ---- SpecBatch: notifications that carry several paths ----
BatchPaths == {<<a_txt, b_dir>>, <<b_dir, a_txt>>, <<b_c_txt, a_txt>>}

NextBatch ==
    \/ ScanStep
    \/ StartDaemon
    \/ DaemonRecv
    \/ Notify({"Create", "ModifyData", "Remove"}, BatchPaths)
    \/ WatcherSend
    \/ FsChange(ChangeTargets, ChangeVersions)

SpecBatch == Init /\ [][NextBatch]_vars

\* ---- SpecChannel: producers against a channel that is empty, or one event
\* short of full ----
Backlog == [i \in 1..(ChannelCapacity - 1) |-> FileEvent("Update", <<a_txt>>, 0)]

InitChannel ==
    /\ fs = Tree0
    /\ store = {}
    /\ mainPc = "serving"
    /\ walk = {}
    /\ walkErr = {}
    /\ passes = 0
    /\ daemon = "running"
    /\ queue \in {<<>>, Backlog}
    /\ pool = Pool1
    /\ cfgFile = Some(Pool1)
    /\ wPending = <<>>
    /\ replies = [i \in 1..MaxRequests |-> NoReply]
    /\ lastMut = NoMut
    /\ envSteps = 0
    /\ http = NoHttp
    /\ lastPass = NoPass
    /\ probe = NoProbe
    /\ sigints = 0
    /\ threads = Started

NextChannel ==
    \/ Notify({"Create"}, {<<b_dir>>})
    \/ WatcherSend
    \/ DaemonRecv
    \/ SigInt
    \/ SendTerminate

SpecChannel == InitChannel /\ [][NextChannel]_vars

\* ---- SpecQuery: requests of several paths, their replies and timeouts ----
QueryBatches == {<<a_txt, b_dir>>, <<b_c_txt, a_txt>>, <<b_dir>>}

NextQuery ==
    \/ ScanStep
    \/ StartDaemon
    \/ DaemonRecv
    \/ SendRequest(QueryBatches)
    \/ ReplyTimeout
    \/ Notify({"Create", "Remove"}, {<<a_txt>>, <<b_dir>>})
    \/ WatcherSend
    \/ FsChange(ChangeTargets, ChangeVersions)

SpecQuery == Init /\ [][NextQuery]_vars

\* ---- SpecSignal: SIGINTs against the serving program ----
NextSignal ==
    \/ Notify({"Create"}, {<<b_dir>>})
    \/ WatcherSend
    \/ DaemonRecv
    \/ SigInt
    \/ SendTerminate
    \/ SigIntUnheard
    \/ SigIntSecond
    \/ ProcessExit

SpecSignal == InitChannel /\ [][NextSignal]_vars

\* ---- SpecShutdown: one SIGINT against the serving program, thread by
\* thread; SpecShutdownFair adds that no thread or task that can move stays
\* still forever ----
NextShutdown ==
    \/ Notify({"Create", "Access"}, {<<b_dir>>})
    \/ WatcherSend
    \/ DaemonRecv
    \/ SigInt
    \/ SendTerminate
    \/ WebServerEnds
    \/ WaiterWebDone
    \/ WaiterStopWatcher
    \/ WaiterStopReturns
    \/ WaiterDaemonDone
    \/ WatcherLeavesLoop
    \/ WatcherUnwatches

\* The serving program before any signal, its channel empty; and the program
\* after the first SIGINT with the daemon behind: Terminate is the second
\* event of a full channel, the server has been asked to stop.
BehindBacklog ==
    <<FileEvent("Update", <<a_txt>>, 0), Terminate>>
    \o [i \in 1..(ChannelCapacity - 2) |-> FileEvent("Update", <<a_txt>>, 0)]

InitShutdown ==
    /\ fs = Tree0
    /\ store = {}
    /\ walk = {}
    /\ walkErr = {}
    /\ passes = 0
    /\ daemon = "running"
    /\ \/ mainPc = "serving" /\ sigints = 0 /\ queue = <<>>
       \/ mainPc = "signalled" /\ sigints = 1 /\ queue = BehindBacklog
    /\ pool = Pool1
    /\ cfgFile = Some(Pool1)
    /\ wPending = <<>>
    /\ replies = [i \in 1..MaxRequests |-> NoReply]
    /\ lastMut = NoMut
    /\ envSteps = 0
    /\ http = NoHttp
    /\ lastPass = NoPass
    /\ probe = NoProbe
    /\ threads = Started

SpecShutdown == InitShutdown /\ [][NextShutdown]_vars

SpecShutdownFair ==
    /\ SpecShutdown
    /\ WF_vars(WatcherSend) /\ WF_vars(DaemonRecv) /\ WF_vars(SendTerminate)
    /\ WF_vars(WebServerEnds) /\ WF_vars(WaiterWebDone) /\ WF_vars(WaiterStopWatcher)
    /\ WF_vars(WaiterStopReturns) /\ WF_vars(WaiterDaemonDone)
    /\ WF_vars(WatcherLeavesLoop) /\ WF_vars(WatcherUnwatches)

\* ---- SpecWatcher: notifications of every kind, before and during the
\* shutdown ----
\* EventKind: Create(_), Modify(Data(Any)), Modify(Metadata(_)),
\* Modify(Name(_)), Remove(_), Access(_)
EventKinds == {"Create", "ModifyData", "ModifyMeta", "ModifyName", "Remove", "Access"}
WatcherBatches == {<<a_txt>>, <<cfg_path>>, <<a_txt, cfg_path>>}

NextWatcher ==
    \/ NotifyRecorded(EventKinds, WatcherBatches)
    \/ WatcherSend
    \/ DaemonRecv
    \/ SigInt
    \/ SendTerminate

SpecWatcher == InitShutdown /\ [][NextWatcher]_vars

(***************************************************************************)
(* Properties                                                              *)
(***************************************************************************)
\* The record the specification expects for a live entry: for a directory
\* hash "", mtime 0, size 0; for a file its digest, mtime and size.
ExpectedEntry(p, ent) ==
    IF ent.kind = "dir" THEN FileEntry_new(p, "", 0, 0, TRUE)
    ELSE FileEntry_new(p, ToString(Xxh3(ent.data)), ent.mtime, ent.size, FALSE)

\* The daemon takes an event off the channel in this step.
Dequeues == daemon = "running" /\ queue # <<>> /\ Len(queue') < Len(queue)

ScanPcs == {"scan_reset", "scan_walk", "scan_sweep"}

\* C1: after a reconciliation pass that walked the whole tree and returned
\* Ok, the paths of the store are exactly the live entries of the tree.
C1_StoreEqualsLiveSet ==
    (mainPc = "start" /\ walkErr = {}) => StorePaths(store) = LiveSet(fs)

\* C2: a query handled after a mutation event observes that event: after
\* Removed(p) the answer for p is Absent, after Created(p)/Updated(p) for a
\* readable p the answer for p is Present with the metadata p had when the
\* event was applied.
C2_QueryObservesEvent ==
    [][\A i \in DOMAIN replies :
          (replies[i].st = "waiting" /\ replies'[i].st = "done") =>
             \A k \in 1..Len(replies'[i].val) :
                LET r == replies'[i].val[k] IN
                /\ (lastMut.type = "Remove" /\ lastMut.paths = <<r.path>>)
                      => r.meta = None
                /\ (lastMut.type \in {"New", "Update"} /\ lastMut.paths = <<r.path>>
                      /\ lastMut.ents[1].kind # "none")
                      => r.meta = Some(FileMeta_new(ExpectedEntry(r.path, lastMut.ents[1])))
      ]_vars

\* C3: the daemon stops when it takes Terminate off the channel, and once
\* stopped it stays stopped: the channel is empty, and the store, the access
\* pool and the answered replies never change again.
C3_TerminateIsLast ==
    /\ [][(Dequeues /\ Head(queue).type = "Terminate") => daemon' = "stopped"]_vars
    /\ [][daemon = "stopped" =>
             /\ daemon' = "stopped"
             /\ queue' = <<>>
             /\ store' = store
             /\ pool' = pool
             /\ lastMut' = lastMut
             /\ \A i \in DOMAIN replies : replies'[i].st = "done" => replies'[i] = replies[i]
         ]_vars

\* C3 witness: the daemon has stopped and a later send_request was refused.
C3_Witness ==
    daemon = "stopped" /\ \E i \in DOMAIN replies : replies[i].st = "refused"

\* C4: when the daemon handles Created(paths) or Updated(paths), every
\* readable path of the batch afterwards has a row with its current
\* hash, mtime, size and is_dir, whether or not a row existed before.
C4_InsertReplaces ==
    [][(Dequeues /\ Head(queue).type \in {"New", "Update"}) =>
          \A k \in 1..Len(Head(queue).paths) :
             LET p == Head(queue).paths[k] IN
             exists_live(fs, p) =>
                /\ HasRow(store', p)
                /\ from_row(RowOf(store', p)) = ExpectedEntry(p, fs[p])
      ]_vars

\* C5: when the daemon handles Removed(d) for a d that is gone from the tree,
\* no row below d is left in the store.
C5_RemoveDirCascades ==
    [][(Dequeues /\ Head(queue).type = "Remove") =>
          \A k \in 1..Len(Head(queue).paths) :
             LET d == Head(queue).paths[k] IN
             ~exists_live(fs, d) => \A r \in store' : ~IsUnder(r.path, d)
      ]_vars

\* C6: every record lookup returns satisfies
\* is_dir => hash = "" /\ mtime = 0 /\ size = 0.
C6_DirRecordsEmpty ==
    \A r \in store :
        LET e == from_row(r) IN
        e.is_dir => (e.hash = "" /\ e.mtime = 0 /\ e.size = 0)

\* C6 witness: a.txt, a file at startup, is now a directory and has a
\* directory row.
C6_Witness ==
    /\ is_dir_live(fs, a_txt)
    /\ HasRow(store, a_txt)
    /\ from_row(RowOf(store, a_txt)).is_dir

\* C7: the scanner and the daemon never hold the store at the same time, and
\* the store changes only in a step of the scanner or in a step in which the
\* daemon takes an event off the channel.
StoreUsers ==
    (IF mainPc \in ScanPcs THEN {"scanner"} ELSE {})
    \cup (IF daemon = "running" THEN {"daemon"} ELSE {})

C7_SingleStoreUser ==
    /\ [](Cardinality(StoreUsers) <= 1)
    /\ [][store' # store => ((mainPc \in ScanPcs /\ daemon = "none") \/ Dequeues)]_vars

\* C7 witness: the scan has filled the store, the daemon runs and has an
\* event of the watcher waiting in its channel.
C7_Witness ==
    /\ daemon = "running"
    /\ store # {}
    /\ queue # <<>>
    /\ mainPc = "serving"

\* C8: a /file or /query request presenting a token that is no key of the
\* pool at the time of the check is answered 401 and reaches no handler.
TokenUniverse == {T1, T2, <<" ">> \o T1}

C8_UnknownTokenUnauthorized ==
    http.phase # "idle" =>
        \A t \in TokenUniverse :
            (/\ http.req.route \in {"/file", "/query"}
             /\ http.req.header = Some(Chars("bearer ") \o t)
             /\ t \notin http.req.keys)
            => (http.status = 401 /\ http.handler = "none")

\* C8 witness: token 1 was removed by a reload that the daemon applied, and
\* a request presenting it got 401.
C8_Witness ==
    /\ http.phase = "done"
    /\ http.req.route \in {"/file", "/query"}
    /\ http.req.header = Some(Chars("bearer ") \o T1)
    /\ http.req.keys = {T2}
    /\ http.status = 401

\* The requested path resolves, and to a place outside the working directory.
ResolvesOutside(path) ==
    LET c == canonicalize_from(<<>>, cwd \o path) IN
    c.ok /\ ~starts_with(c.path, cwd)

\* C9: an authenticated GET /file/*p for a p that resolves outside the
\* working directory is answered 403 without content.
C9_OutsideForbidden ==
    (/\ http.phase = "done"
     /\ http.req.route = "/file"
     /\ http.req.allowed # None
     /\ ResolvesOutside(http.req.path))
    => (http.status = 403 /\ http.body = None)

\* C9 witness: an authenticated request for a path that leaves the working
\* directory through a symbolic link was answered.
C9_Witness ==
    /\ http.phase = "done"
    /\ http.req.route = "/file"
    /\ http.req.allowed # None
    /\ http.req.path = <<"out", "passwd">>
    /\ http.status = 403

\* C10: an authenticated GET /file/*path for an existing regular file inside
\* the working directory, under an allowed prefix, is answered 200 with the
\* content of the file.
C10_InsideFileServed ==
    (/\ http.phase = "done"
     /\ http.req.route = "/file"
     /\ http.req.allowed # None
     /\ check_penetration(http.req.path)
     /\ canonicalize_from(<<>>, cwd \o http.req.path).path \in HostFiles
     /\ \E k \in 1..Len(http.req.allowed[1]) :
            starts_with(http.req.path, http.req.allowed[1][k]))
    => (/\ http.status = 200
        /\ http.body = Some(HostContent(canonicalize_from(<<>>, cwd \o http.req.path).path)))

\* The exchange is finished, on `route`, and the auth layer accepted the token.
Authenticated(route) ==
    http.phase = "done" /\ http.req.route = route /\ http.req.allowed # None

\* C11: a GET /query with a token of the pool, while the daemon runs and
\* replies in time, is answered 200 with one result per allowed prefix of
\* the token, in order.
C11_QueryAnswered ==
    (/\ Authenticated("/query")
     /\ http.req.delay # None
     /\ http.req.delay[1] < http.WAIT_TIME)
    => (/\ http.status = 200
        /\ http.body = Some(query_all(store, http.req.allowed[1])))

\* C12: a /query handler whose reply has not arrived within WAIT_TIME (the
\* --server-timeout value, at most 3, 3 when it does not parse) answers 504.
C12_TimeoutGives504 ==
    (/\ Authenticated("/query")
     /\ (http.req.delay = None \/ http.req.delay[1] >= http.WAIT_TIME))
    => http.status = 504

C14_BatchContinues ==
    [][(Dequeues /\ Head(queue).type \in {"New", "Update"}) =>
          \A k \in 1..Len(Head(queue).paths) :
             LET p == Head(queue).paths[k] IN
             (/\ exists_live(fs, p)
              /\ ~HasRow(store, p)
              /\ \A j \in 1..(k - 1) : Head(queue).paths[j] # p)
             => HasRow(store', p)
      ]_vars

\* C15: when a store statement fails while the daemon handles a mutation
\* event (every path of the batch is readable, so the failure is the
\* insert's), the daemon leaves its loop with an error.
C15_StoreErrorStopsDaemon ==
    [][(/\ Dequeues
        /\ Head(queue).type \in {"New", "Update"}
        /\ \A k \in 1..Len(Head(queue).paths) : exists_live(fs, Head(queue).paths[k])
        /\ ~event_handler(store, fs, Head(queue)).ok)
       => daemon' = "failed"
      ]_vars

\* C16: handling ConfigureUpdated makes the pool exactly the mapping of the
\* configuration file if it parses and leaves the pool unchanged if not;
\* nothing else changes the pool; an auth check sees the keys and the
\* prefixes of one whole mapping, the previous or the new one.
C16_ReloadSwapsPool ==
    /\ [][(Dequeues /\ Head(queue).type = "ConfigureUpdated") =>
             pool' = IF cfgFile # None THEN cfgFile[1] ELSE pool]_vars
    /\ [][pool' # pool => (Dequeues /\ Head(queue).type = "ConfigureUpdated")]_vars
    /\ [](http.phase = "done" =>
             \E P \in {Pool1, Pool3} :
                /\ http.req.keys = DOMAIN P
                /\ http.req.allowed # None =>
                      \E t \in DOMAIN P :
                         /\ http.req.header = Some(Chars("bearer ") \o t)
                         /\ http.req.allowed = Some(P[t]))

\* C16 witness: a reload replaced the pool and a later auth check saw the
\* whole new mapping.
C16_Witness ==
    /\ pool = Pool3
    /\ http.phase = "done"
    /\ http.req.keys = {T2}
    /\ http.req.allowed = Some(Pool3[T2])

\* The pass under way runs on the tree of the previous pass, which walked
\* the whole tree and returned Ok, and nothing wrote to the store in between.
SecondPass == lastPass.valid /\ lastPass.fs = fs /\ walkErr = {}

\* C17: a second pass over an unchanged tree does not fail and leaves the
\* store as the first pass left it: the same rows with the same hash,
\* mtime, size, is_dir and mark.
C17_ScanIdempotent ==
    /\ [][(SecondPass /\ mainPc = "scan_sweep" /\ mainPc' = "start") =>
             store' = lastPass.store]_vars
    /\ [][(SecondPass /\ mainPc \in ScanPcs) => mainPc' # "failed"]_vars

\* C17 witness: a second pass over a tree with a file, a directory and a
\* file below it has returned.
C17_Witness ==
    /\ mainPc = "start"
    /\ lastPass.repeat
    /\ LiveSet(fs) = Paths
    /\ store # {}

\* C18: when the scanner comes to a file that has a row with the live mtime
\* and size, it sets the mark of that row and changes nothing else: hash,
\* mtime, size and is_dir stay, whatever the file contains now.
C18_EqualRowOnlyMarked ==
    [][(mainPc = "scan_walk" /\ walk' # walk) =>
          \A p \in walk \ walk' :
             (/\ fs[p].kind = "file"
              /\ HasRow(store, p)
              /\ RowOf(store, p).is_dir = 0
              /\ RowOf(store, p).mtime = fs[p].mtime
              /\ RowOf(store, p).size = fs[p].size)
             => store' = (store \ {RowOf(store, p)})
                           \cup {[RowOf(store, p) EXCEPT !.marked = 1]}
      ]_vars

\* C18 witness: the scanner has marked the row of a.txt, which still holds
\* the digest of the old content while the file has new content with the
\* old mtime and size.
C18_Witness ==
    /\ mainPc = "scan_walk"
    /\ a_txt \notin walk
    /\ fs[a_txt] = FileV3
    /\ HasRow(store, a_txt)
    /\ RowOf(store, a_txt).hash = Some(ToString(Xxh3(FileV1.data)))
    /\ RowOf(store, a_txt).marked = 1

\* C19: check_penetration(p) is true exactly when the current directory
\* joined with p canonicalizes, and to a path below the current directory;
\* so "../" and a path through a link that leaves are rejected, a path
\* that does not exist is rejected, and "../srv/pub/x", which comes back
\* inside /srv, is accepted.
C19_PenetrationCheck ==
    probe.call = "check_penetration" =>
        LET c == canonicalize_from(<<>>, path_push(cwd, probe.path)) IN
        /\ probe.result = (c.ok /\ starts_with(c.path, cwd))
        /\ probe.path \in {<<"..">>, <<"out", "passwd">>, <<"pub", "passwd">>,
                            <<"..", "etc", "passwd">>, <<"/", "etc", "passwd">>}
              => ~probe.result
        /\ probe.path \in {<<>>, <<"pub", "x">>, <<"..", "srv", "pub", "x">>,
                            <<"pub", "..", "pub", "x">>, <<"out", "..", "srv", "pub">>,
                            <<"/", "srv", "pub", "x">>}
              => probe.result

\* C19 witness: the check accepted a path that leaves the working
\* directory and comes back into it.
C19_Witness ==
    /\ probe.call = "check_penetration"
    /\ probe.path = <<"..", "srv", "pub", "x">>
    /\ probe.result

\* C20: the digest is a function of exactly the content of the file: two
\* files get the same digest exactly when their content is the same.
C20_DigestOfContent ==
    probe.call = "get_file_hash" => probe.equal_digest = probe.equal_content

\* C21: a prefix operation on directory d returns, and deletes, exactly the
\* rows whose path begins with the characters of d followed by "/"; "%" and
\* "_" in d stand for themselves.
LiteralPrefixRows(d, ps) == {q \in ps : IsUnder(q, d)}

C21_PrefixLiteral ==
    probe.call = "prefix" =>
        /\ probe.returned = LiteralPrefixRows(probe.dir, probe.rows)
        /\ probe.kept = probe.rows \ LiteralPrefixRows(probe.dir, probe.rows)

\* C22: when the walker yields an error for an entry, init_files returns the
\* error: a pass whose walk stopped with entries still unvisited does not
\* return Ok.
C22_WalkErrorSurfaced ==
    [][(mainPc = "scan_sweep" /\ walk # {}) => mainPc' # "start"]_vars

\* C23: the first SIGINT starts the graceful shutdown (the kill closure runs
\* and sends Terminate to a live daemon), and every later SIGINT delivered
\* while the process still runs ends it with status 137.
C23_SecondSigIntForcesExit ==
    /\ [][(sigints = 0 /\ sigints' = 1) => mainPc' = "sending_terminate"]_vars
    /\ [][(mainPc = "sending_terminate" /\ mainPc' = "signalled" /\ ReceiverAlive) =>
             queue' = Append(queue, Terminate)]_vars
    /\ [][(sigints >= 1 /\ sigints' = sigints + 1) => mainPc' = "forced"]_vars

\* C24: after a pass that walked the whole tree and returned Ok, the paths
\* of the marked rows are exactly the live entries; and every row a scan
\* step inserts, for a file or for a directory, is marked.
MarkedPaths(s) == {r.path : r \in {x \in s : x.marked # 0}}

C24_MarkedEqualsLiveSet ==
    /\ [](mainPc = "start" /\ walkErr = {} => MarkedPaths(store) = LiveSet(fs))
    /\ [][mainPc = "scan_walk" =>
             \A r \in store' : ~HasRow(store, r.path) => r.marked # 0]_vars

\* C25: when the scan reaches an entry whose row is not equal to the live
\* entry, the row afterwards holds the hash computed in that step and the
\* live mtime and size, and is marked.
RowDiffers(s, f, q) ==
    HasRow(s, q) /\ ~FileEntry_eq(from_row(RowOf(s, q)), from_metadata(f, q, ""))

C25_ChangedRowUpdated ==
    [][\A q \in Paths :
          (mainPc = "scan_walk" /\ q \in walk /\ q \notin walk' /\ RowDiffers(store, fs, q)) =>
              /\ HasRow(store', q)
              /\ RowOf(store', q).hash = Some(HashText_u64(get_hash(fs, q).val))
              /\ RowOf(store', q).mtime = FileEntry_mtime(from_metadata(fs, q, ""))
              /\ RowOf(store', q).size = FileEntry_size(from_metadata(fs, q, ""))
              /\ RowOf(store', q).marked # 0]_vars

\* C26: equality of two records does not look at hash; two directories are
\* equal, two files are equal when mtime and size agree, a file and a
\* directory are never equal; and a == b gives the answer of b == a.
C26_EqualitySymmetric ==
    probe.call = "eq" =>
        /\ probe.ab = probe.ba
        /\ probe.a.is_dir # probe.b.is_dir => ~probe.ab
        /\ (probe.a.is_dir /\ probe.b.is_dir) => probe.ab
        /\ (~probe.a.is_dir /\ ~probe.b.is_dir) =>
               probe.ab = (probe.a.mtime = probe.b.mtime /\ probe.a.size = probe.b.size)

\* C27: the daemon handles one event per turn and always the oldest one of
\* the channel; producers add at the tail only; the watcher hands over its
\* messages in the order the callback produced them.
IsAppend(q2, q) == Len(q2) = Len(q) + 1 /\ SubSeq(q2, 1, Len(q)) = q

C27_ArrivalOrder ==
    /\ [][queue' # queue =>
             \/ daemon = "running" /\ queue # <<>> /\ daemon' = "running" /\ queue' = Tail(queue)
             \/ daemon = "running" /\ queue # <<>> /\ daemon' # "running" /\ queue' = <<>>
             \/ daemon' = daemon /\ IsAppend(queue', queue)]_vars
    /\ [][(Dequeues /\ Head(queue).type \in {"New", "Update", "Remove"}) =>
             /\ lastMut'.type = Head(queue).type
             /\ lastMut'.paths = Head(queue).paths
             /\ store' = event_handler(store, fs, Head(queue)).store]_vars
    /\ [][(Dequeues /\ Head(queue).type = "Request") =>
             \A i \in DOMAIN replies :
                 replies'[i] # replies[i] /\ replies'[i].st = "done" => i = Head(queue).id]_vars
    /\ [][(wPending # <<>> /\ wPending' # wPending) =>
             /\ wPending' = Tail(wPending)
             /\ ReceiverAlive => queue' = Append(queue, Head(wPending))]_vars

\* Two different events wait in the channel, a third one has been handled.
C27_Witness ==
    /\ daemon = "running" /\ Len(queue) >= 2 /\ queue[1] # queue[2]
    /\ lastMut # NoMut

\* C28: the reply to a request carries one result per requested path, in
\* request order: Present with the record of the row of exactly that path as
\* the store holds it when the request is handled, Absent(path) when there is
\* no such row.  A reply channel is written only when its own request is
\* handled, and at most once.
Present(r) ==
    [path |-> r.path,
     meta |-> Some([hash |-> IF r.hash = None THEN "" ELSE r.hash[1],
                    mtime |-> r.mtime, size |-> r.size, is_dir |-> r.is_dir # 0])]
Absent(path) == [path |-> path, meta |-> None]

C28_ReplyPerPath ==
    /\ [][\A i \in DOMAIN replies :
             replies'[i] # replies[i] /\ replies'[i].st = "done" =>
                 /\ Dequeues /\ Head(queue).type = "Request" /\ Head(queue).id = i
                 /\ replies[i].st = "waiting"
                 /\ LET paths == Head(queue).paths
                        val == replies'[i].val
                    IN /\ Len(val) = Len(paths)
                       /\ \A k \in 1..Len(paths) :
                             val[k] = IF \E r \in store : r.path = paths[k]
                                      THEN Present(CHOOSE r \in store : r.path = paths[k])
                                      ELSE Absent(paths[k])]_vars
    /\ [][\A i \in DOMAIN replies : replies[i].st = "done" => replies'[i] = replies[i]]_vars
    /\ [][(Dequeues /\ Head(queue).type = "Request"
             /\ replies[Head(queue).id].st = "waiting") =>
                 replies'[Head(queue).id].st = "done"]_vars

\* Two requests were answered, one of them with a Present and an Absent
\* result, the other with different results.
C28_Witness ==
    /\ replies[1].st = "done" /\ replies[2].st = "done"
    /\ replies[1].val # replies[2].val
    /\ \E i \in DOMAIN replies :
          /\ Len(replies[i].val) = 2
          /\ \E k, l \in 1..2 : replies[i].val[k].meta # None /\ replies[i].val[l].meta = None

\* C29: when the daemon handles a request whose reply receiver was dropped
\* by the timeout, the result goes nowhere: no reply channel, the store and
\* the access pool stay as they are, the daemon keeps running and the
\* events behind the request stay in the channel for the next turns.
C29_DroppedReplyDiscarded ==
    [][(Dequeues /\ Head(queue).type = "Request"
         /\ replies[Head(queue).id].st = "dropped") =>
             /\ replies' = replies
             /\ store' = store
             /\ pool' = pool
             /\ daemon' = "running"
             /\ queue' = Tail(queue)]_vars

\* The first request timed out and was handled afterwards (it is no longer
\* in the channel); the request sent after it has been answered.
C29_Witness ==
    /\ replies[1].st = "dropped"
    /\ \A k \in DOMAIN queue : queue[k].type # "Request"
    /\ replies[2].st = "done"
    /\ daemon = "running"

\* C30: stop on a finished worker returns Some(()) without asking it to
\* stop; on an unfinished worker it asks, then polls is_finished at most five
\* times, 100 ms apart; it returns None exactly when it has called the
\* timeout callback, which it calls once and exactly when the worker was
\* still unfinished at the last look; otherwise it returns Some(()) and the
\* callback is not called.
C30_StopPollsThenReports ==
    probe.call = "stop" =>
        /\ probe.polls <= 5
        /\ probe.elapsed = 100 * probe.polls \/ probe.elapsed = 100 * (probe.polls + 1)
        /\ probe.not_finished <= 1
        /\ probe.first # "unfinished" => ~probe.asked
        /\ probe.pc = "returned" =>
              /\ probe.first = "unfinished" => probe.asked
              /\ (probe.result = "None") = (probe.not_finished = 1)
              /\ (probe.result = "None") = ~probe.seen
              /\ (probe.result = "Some") = (probe.not_finished = 0)

\* The worker was unfinished at every look: five polls over 500 ms, then the
\* callback and None.
C30_Witness ==
    /\ probe.call = "stop" /\ probe.pc = "returned"
    /\ probe.polls = 5 /\ probe.elapsed = 500
    /\ probe.not_finished = 1 /\ probe.result = "None"

\* ---- C31 ----
WatcherBlockedOnFullChannel ==
    /\ threads.watcher = "unwatching"
    /\ wPending # <<>>
    /\ Len(queue) = ChannelCapacity

\* C31 as stated: once the exit flag is true the watcher thread eventually
\* leaves its loop, unsubscribes and finishes.
C31_AlwaysFinishes == threads.exit_shot ~> (threads.watcher = "finished")

\* C31, amended: once the exit flag is true the watcher thread eventually
\* finishes, or the process has exited while the thread, out of its polling
\* loop, was still in unwatch; the flag is written only by stop, called by
\* server_handler_waiter, and never goes back to false; the thread leaves its
\* loop only with the flag set.
C31_WatcherLeavesLoop ==
    /\ threads.exit_shot ~> (\/ threads.watcher = "finished"
                             \/ mainPc = "exited" /\ threads.watcher = "unwatching")
    /\ [][threads.exit_shot => threads'.exit_shot]_vars
    /\ [][threads'.exit_shot # threads.exit_shot => threads.waiter = "stop_watcher"]_vars
    /\ [](threads.watcher \in {"unwatching", "finished"} => threads.exit_shot)

C31_Witness ==
    /\ threads.exit_shot
    /\ threads.watcher = "finished"
    /\ daemon = "stopped"
    /\ mainPc # "exited"

\* ---- C32 ----
IndexEvents(evs) == SelectSeq(evs, LAMBDA e : e.type \in {"New", "Update", "Remove", "Unknown"})

\* The translation the claim gives: create, data modification and remove
\* make one event, every other kind none.
ClaimedIndexEvents(kind, paths) ==
    CASE kind = "Create" -> <<FileEvent("New", paths, 0)>>
      [] kind = "ModifyData" -> <<FileEvent("Update", paths, 0)>>
      [] kind = "Remove" -> <<FileEvent("Remove", paths, 0)>>
      [] OTHER -> <<>>

NotificationStep == envSteps' = envSteps + 1 /\ probe'.call = "event_handler"

\* C32: each notification makes the callback send at most one index event,
\* New for a create, Update for a data modification, Remove for a remove,
\* and nothing for any other kind (access, metadata-only change, rename).
C32_TranslatedByKind ==
    [][NotificationStep =>
         IndexEvents(wPending') = ClaimedIndexEvents(probe'.kind, probe'.paths)]_vars

\* ---- C33 ----
ReloadsIn(evs) == Len(SelectSeq(evs, LAMBDA e : e.type = "ConfigureUpdated"))
ConfigPathsIn(paths) == Len(SelectSeq(paths, LAMBDA p : p = cfg_path))
ReloadsWaiting == ReloadsIn(queue) + ReloadsIn(wPending)
HandlesReload == Dequeues /\ Head(queue).type = "ConfigureUpdated"

\* C33 as stated, its last part: a ConfigureUpdated the callback has to send
\* leaves the callback and the channel only by the daemon handling it, which
\* re-reads the configuration.
C33_ReloadAfterEveryModification ==
    [][ReloadsWaiting' < ReloadsWaiting => HandlesReload /\ pool' = reload_pool(pool, cfgFile)]_vars

\* C33, amended: a notification of a data modification with the
\* configuration path among its paths makes the callback send
\* ConfigureUpdated(configPath), once for each such path, and then
\* Update(paths); no other notification makes it send ConfigureUpdated and
\* nothing else puts one on the channel; the daemon re-reads the
\* configuration when it handles the event, and an event it does not handle
\* is one that was sent to, or was still queued in, a channel whose daemon has
\* stopped.
C33_ConfigReloadOnDataChange ==
    /\ [][NotificationStep =>
            IF probe'.kind = "ModifyData" /\ ConfigPathsIn(probe'.paths) > 0
            THEN /\ wPending' =
                      [i \in 1..ConfigPathsIn(probe'.paths) |-> ConfigureUpdated(cfg_path)]
                      \o <<FileEvent("Update", probe'.paths, 0)>>
            ELSE ReloadsIn(wPending') = 0]_vars
    /\ [][ReloadsIn(wPending') > ReloadsIn(wPending) => NotificationStep]_vars
    /\ [][ReloadsIn(queue') > ReloadsIn(queue) =>
            /\ wPending # <<>> /\ Head(wPending).type = "ConfigureUpdated"
            /\ wPending' = Tail(wPending)
            /\ queue' = Append(queue, Head(wPending))]_vars
    /\ [][HandlesReload => pool' = reload_pool(pool, cfgFile)]_vars
    /\ [][ReloadsWaiting' < ReloadsWaiting => HandlesReload \/ daemon' # "running"]_vars

\* A data modification of the configuration file has been reported, its
\* ConfigureUpdated is in the channel and the Update is next to be sent.
C33_Witness ==
    /\ probe.call = "event_handler" /\ probe.kind = "ModifyData"
    /\ ConfigPathsIn(probe.paths) > 0
    /\ queue # <<>> /\ queue[Len(queue)].type = "ConfigureUpdated"
    /\ wPending = <<FileEvent("Update", probe.paths, 0)>>
    /\ daemon = "running"

\* ---- C34 ----
ShutdownComplete ==
    /\ mainPc = "exited"
    /\ threads.web = "finished"
    /\ threads.exit_shot
    /\ daemon = "stopped"
    /\ threads.waiter = "returned_ok"

\* C34: after a first SIGINT, with every thread and task of the program
\* scheduled fairly, the server stops, Terminate is enqueued, the exit flag
\* is raised, the daemon stops with Ok and async_main returns; the server is
\* stopped and Terminate sent only on the signal, the events ahead of
\* Terminate are handled before it one by one, and the daemon stops with Ok
\* only by taking Terminate from the head of the channel.
C34_GracefulShutdown ==
    /\ (sigints >= 1) ~> ShutdownComplete
    /\ [](threads.web = "finished" => sigints >= 1)
    /\ [][mainPc = "sending_terminate" /\ mainPc' = "signalled" =>
            queue' = Append(queue, Terminate)]_vars
    /\ [][(Dequeues /\ Head(queue).type # "Terminate") =>
            daemon' = "running" /\ queue' = Tail(queue)]_vars
    /\ [][daemon # "stopped" /\ daemon' = "stopped" =>
            daemon = "running" /\ queue # <<>> /\ Head(queue).type = "Terminate"]_vars
    /\ [](mainPc = "exited" => ShutdownComplete)

\* The shutdown has completed after the daemon handled an event of the
\* watcher that was ahead of Terminate.
C34_Witness ==
    /\ ShutdownComplete
    /\ sigints = 1
    /\ lastMut.type = "New"

\* ---- C35 ----
\* C35: every response to GET /query has status 200, 401, 504 or 500, also
\* when the request arrives after the daemon has stopped and the event
\* channel is closed.
C35_QueryStatuses ==
    (http.phase = "done" /\ http.req.route = "/query")
    => http.status \in {200, 401, 504, 500}

\* An authenticated /query that arrived after the daemon had handled
\* Terminate has been answered.
C35_Witness ==
    /\ http.phase = "done" /\ http.req.route = "/query"
    /\ http.handler = "query"
    /\ ~http.req.receiver
    /\ daemon = "stopped"

\* ---- C36 ----
Handled == {"New", "Update", "Remove", "ConfigureUpdated", "Terminate", "Request"}

\* C36: no producer puts Unknown on the channel, the mutation handler is
\* called with New, Update or Remove only, and the daemon never reaches
\* either unreachable!().
C36_NoUnreachable ==
    /\ \A i \in DOMAIN queue : queue[i].type \in Handled
    /\ \A i \in DOMAIN wPending : wPending[i].type \in Handled
    /\ lastMut # NoMut => lastMut.type \in {"New", "Update", "Remove"}
    /\ daemon # "panicked"

\* A notification of a kind that From<Event> maps to Unknown has been
\* reported to the callback, which sends nothing; the daemon runs.
C36_Witness ==
    /\ probe.call = "event_handler"
    /\ FileEvent_from(probe.kind, probe.paths).type = "Unknown"
    /\ wPending = <<>>
    /\ lastMut # NoMut
    /\ daemon = "running"

\* ---- C37 ----
SweepRuns == mainPc = "scan_sweep" /\ mainPc' # "scan_sweep"

\* C37: the sweep runs only after the walk has visited every live entry, so
\* a pass that stopped early deletes no row of an entry it did not visit.
C37_SweepOnlyAfterFullWalk ==
    /\ [][SweepRuns => walk = {}]_vars
    /\ [][(SweepRuns /\ walk # {}) =>
            \A r \in store : r.path \in walk => HasRow(store', r.path)]_vars
====
